---- MODULE Spec2Model ----
(***************************************************************************)
(* BRUNA OS kernel core: the process/thread registry                       *)
(* (kernel/process.rs, kernel/thread.rs), the round-robin scheduler        *)
(* (kernel/scheduler.rs) and the system message bus (kernel/ipc.rs).       *)
(*                                                                         *)
(* Every public operation is one action.  The three components share no   *)
(* state in the source: SimpleProcessManager holds only its process map,   *)
(* RoundRobinScheduler only its ready queue, SystemMessageBus only its     *)
(* queues.  The id counters are process-wide statics shared by every       *)
(* manager instance.                                                       *)
(***************************************************************************)
EXTENDS Integers, Sequences, FiniteSets

(* ---------------------------------------------------------------------- *)
(* Bounds of the model                                                     *)
(* ---------------------------------------------------------------------- *)
\* ids the process counter may hand out before the model stops creating
MaxPid == 2
\* ids the thread counter may hand out before the model stops creating
MaxTid == 2
\* messages constructed (Message::new) before the model stops sending
MaxMid == 2
\* thread ids a caller may pass to the scheduler directly: 1..MaxSchedTid
MaxSchedTid == 3
\* schedule_next() calls counted in one uninterrupted run
MaxCalls == 4

\* manager instances sharing the static counters (each test builds its own)
Managers == {1, 2}
\* process ids a caller may pass to the registry (MaxPid + 1 is never issued)
PidArgs == 1..(MaxPid + 1)
\* thread ids a caller may pass to the registry
TidArgs == 1..(MaxTid + 1)
\* thread ids a caller may pass to the scheduler
SchedTids == 1..MaxSchedTid
\* sender / receiver process ids used on the bus (any u64 is accepted)
BusPids == {1, 2}
\* payloads (Vec<u8>)
Payloads == {<<>>, <<1, 2, 3>>}
\* sleep durations (ignored by sleep_thread)
Durations == {0, 100}
\* callers that run the id generators concurrently
Callers == {1, 2}
\* the three generator functions
Generators == {"generate_pid", "generate_tid", "generate_mid"}

VARIABLES
    next_pid,      \* static NEXT_PROCESS_ID
    next_tid,      \* static NEXT_THREAD_ID
    next_mid,      \* static NEXT_MESSAGE_ID
    processes,     \* SimpleProcessManager.processes, one map per manager
    ready_queue,   \* RoundRobinScheduler.ready_queue
    queues,        \* SystemMessageBus.queues
    outbox,        \* Message values constructed and not yet passed to the bus
    ret,           \* the last call: operation, arguments, what it returned and,
                   \* for terminate_process, the thread ids dropped with the process
    issued_pids,   \* history: ids returned by create_process, in call order
    issued_tids,   \* history: ids returned by create_thread, in call order
    sent_log,      \* history: per receiver, the messages passed to send_message
    recv_log,      \* history: per receiver, the messages returned by receives
    run_start,     \* history: ready queue after the last add/remove call
    run_calls,     \* history: schedule_next() calls since the last add/remove
    due,           \* history: per queued thread, the schedule_next() calls left
                   \* before it is overdue: k + 1 when it stands at position k
                   \* (0-based), one less after every call that does not return it
    ahead,         \* history: per queued thread, the threads that were queued
                   \* when it was added and have been neither returned by
                   \* schedule_next() nor removed since
    gen_pc,        \* per concurrent caller, the generator function it is inside
                   \* and has not yet executed the fetch_add of ("idle": none)
    gen_got        \* history: per caller and generator, the ids returned to it

vars == <<next_pid, next_tid, next_mid, processes, ready_queue, queues, outbox, ret,
          issued_pids, issued_tids, sent_log, recv_log, run_start, run_calls, due,
          ahead, gen_pc, gen_got>>

procVars  == <<next_pid, next_tid, processes, issued_pids, issued_tids>>
schedVars == <<ready_queue, run_start, run_calls, due, ahead>>
busVars   == <<next_mid, queues, outbox, sent_log, recv_log>>
genVars   == <<gen_pc, gen_got>>

(* ---------------------------------------------------------------------- *)
(* Maps (HashMap) as functions on their key set                            *)
(* ---------------------------------------------------------------------- *)
EmptyMap == [k \in {} |-> 0]

ContainsKey(map, k) == k \in DOMAIN map

Insert(map, k, v) == [x \in (DOMAIN map) \cup {k} |-> IF x = k THEN v ELSE map[x]]

Remove(map, k) == [x \in (DOMAIN map) \ {k} |-> map[x]]

(* ---------------------------------------------------------------------- *)
(* Sequences (VecDeque)                                                    *)
(* ---------------------------------------------------------------------- *)
Contains(q, x) == \E i \in 1..Len(q) : q[i] = x

\* iter().position(|&x| x == tid): index of the first occurrence, 0 if none
Position(q, x) ==
    IF Contains(q, x)
    THEN CHOOSE i \in 1..Len(q) : q[i] = x /\ \A j \in 1..(i - 1) : q[j] # x
    ELSE 0

\* VecDeque::remove(pos)
swap_remove_back(q, pos) ==
    IF pos = Len(q) THEN SubSeq(q, 1, Len(q) - 1)
    ELSE SubSeq(q, 1, pos - 1) \o <<q[Len(q)]>> \o SubSeq(q, pos + 1, Len(q) - 1)
RemoveAt(q, pos) == SubSeq(q, 1, pos - 1) \o SubSeq(q, pos + 1, Len(q))

NoMsg == [id |-> 0, sender_pid |-> 0, receiver_pid |-> 0, payload |-> <<>>]

\* what a call returned; fields a call does not use keep these values
NoRet == [op |-> "none", mgr |-> 0, pid |-> 0, tid |-> 0, res |-> "-",
          val |-> 0, st |-> "-", msg |-> NoMsg, dropped |-> {}]

\* op(mgr, pid, tid) returned res carrying val (an id), st (a state or the
\* Option tag) or msg (a message); for remove_thread and mark_thread_blocked
\* val is the position the id was found at (0: not queued); for sleep_thread
\* val is the duration that was passed
Ret(op, mgr, pid, tid, res, val, st, msg) ==
    [op |-> op, mgr |-> mgr, pid |-> pid, tid |-> tid, res |-> res,
     val |-> val, st |-> st, msg |-> msg, dropped |-> {}]

(* ---------------------------------------------------------------------- *)
(* Identifier generators: fetch_add(1) on a static AtomicU64               *)
(* The counters are 64 bits wide; the model stops far below the wrap.      *)
(* ---------------------------------------------------------------------- *)
\* the counter after generate_pid()
pid_fetch_add_stuck(c) == c
pid_fetch_add(c) == c + 1

\* the counter after generate_tid()
tid_fetch_add_stuck(c) == c
tid_fetch_add(c) == c + 1

\* the counter after generate_mid()
mid_fetch_add_stuck(c) == c
mid_fetch_add(c) == c + 1

(* ---------------------------------------------------------------------- *)
(* Thread and Process                                                      *)
(* ---------------------------------------------------------------------- *)
\* Thread::new
ThreadNew_swapped(id, process_id) ==
    [id |-> process_id, process_id |-> id, state |-> "Ready"]
ThreadNew_running(id, process_id) ==
    [id |-> id, process_id |-> process_id, state |-> "Running"]
ThreadNew(id, process_id) == [id |-> id, process_id |-> process_id, state |-> "Ready"]

\* Process::new
ProcessNew(id) == [id |-> id, state |-> "New", threads |-> EmptyMap]

(* ---------------------------------------------------------------------- *)
(* Round-robin scheduler: the queue each operation leaves                  *)
(* ---------------------------------------------------------------------- *)
add_thread_always(q, tid) == Append(q, tid)
add_thread_front(q, tid) == IF ~Contains(q, tid) THEN <<tid>> \o q ELSE q
add_thread(q, tid) == IF ~Contains(q, tid) THEN Append(q, tid) ELSE q

remove_thread_or_front(q, tid) ==
    IF Position(q, tid) # 0 THEN RemoveAt(q, Position(q, tid))
    ELSE IF Len(q) > 0 THEN Tail(q) ELSE q

remove_thread(q, tid) ==
    IF Position(q, tid) # 0 THEN RemoveAt(q, Position(q, tid)) ELSE q

\* pop_front then push_back of the same id
schedule_next_front_stays(q) == q
schedule_next_pop_only(q) == IF Len(q) > 0 THEN Tail(q) ELSE q
schedule_next(q) == IF Len(q) > 0 THEN Append(Tail(q), Head(q)) ELSE q

\* what schedule_next() returns: Some(the id popped from the front) or None
schedule_next_ret_back(q) ==
    IF Len(q) > 0 THEN [res |-> "Some", val |-> q[Len(q)]] ELSE [res |-> "None", val |-> 0]
schedule_next_ret(q) ==
    IF Len(q) > 0 THEN [res |-> "Some", val |-> Head(q)] ELSE [res |-> "None", val |-> 0]

\* Scheduler::mark_thread_ready / mark_thread_blocked (trait defaults)
mark_thread_ready(q, tid) == add_thread(q, tid)
mark_thread_blocked(q, tid) == remove_thread(q, tid)

(* ---------------------------------------------------------------------- *)
(* Message bus: messages and the queue map each operation leaves           *)
(* ---------------------------------------------------------------------- *)
\* Message::new, with id the value generate_mid() returned
MessageNew(id, sender_pid, receiver_pid, payload) ==
    [id |-> id, sender_pid |-> sender_pid, receiver_pid |-> receiver_pid,
     payload |-> payload]

\* the key send_message files a message under
entry_key_sender(message) == message.sender_pid
entry_key(message) == message.receiver_pid

\* VecDeque::push_back
push_back_empty_payload(q, x) == Append(q, [x EXCEPT !.payload = <<>>])
push_front(q, x) == <<x>> \o q
push_back(q, x) == Append(q, x)

\* queues.entry(receiver_pid).or_insert_with(VecDeque::new), then push_back
send_message_existing_only(qs, message) ==
    IF ContainsKey(qs, entry_key(message))
    THEN [qs EXCEPT ![entry_key(message)] = push_back(@, message)]
    ELSE qs
send_message(qs, message) ==
    LET k == entry_key(message)
        entry == IF ContainsKey(qs, k) THEN qs ELSE Insert(qs, k, <<>>)
    IN  [entry EXCEPT ![k] = push_back(@, message)]

\* receive_message: is there a message, which one, and the queues afterwards
receive_has(qs, receiver_pid) ==
    ContainsKey(qs, receiver_pid) /\ Len(qs[receiver_pid]) > 0

receive_message(qs, receiver_pid) ==
    IF receive_has(qs, receiver_pid) THEN Head(qs[receiver_pid]) ELSE NoMsg

receive_message_rest_peek(qs, receiver_pid) == qs
receive_message_rest_or_insert(qs, receiver_pid) ==
    IF receive_has(qs, receiver_pid)
    THEN [qs EXCEPT ![receiver_pid] = Tail(@)]
    ELSE IF ContainsKey(qs, receiver_pid) THEN qs ELSE Insert(qs, receiver_pid, <<>>)
receive_message_rest(qs, receiver_pid) ==
    IF receive_has(qs, receiver_pid)
    THEN [qs EXCEPT ![receiver_pid] = Tail(@)]
    ELSE qs

\* try_receive_message: the same lookups, written out a second time in the source
try_receive_has(qs, receiver_pid) ==
    ContainsKey(qs, receiver_pid) /\ Len(qs[receiver_pid]) > 0

try_receive_message_back(qs, receiver_pid) ==
    IF try_receive_has(qs, receiver_pid)
    THEN qs[receiver_pid][Len(qs[receiver_pid])]
    ELSE NoMsg
try_receive_message(qs, receiver_pid) ==
    IF try_receive_has(qs, receiver_pid) THEN Head(qs[receiver_pid]) ELSE NoMsg

try_receive_message_rest(qs, receiver_pid) ==
    IF try_receive_has(qs, receiver_pid)
    THEN [qs EXCEPT ![receiver_pid] = Tail(@)]
    ELSE qs

(* ---------------------------------------------------------------------- *)
(* Initial state: statics at 1, a new manager, scheduler and bus           *)
(* ---------------------------------------------------------------------- *)
Init ==
    /\ next_pid = 1
    /\ next_tid = 1
    /\ next_mid = 1
    /\ processes = [m \in Managers |-> EmptyMap]
    /\ ready_queue = <<>>
    /\ queues = EmptyMap
    /\ outbox = {}
    /\ ret = NoRet
    /\ issued_pids = <<>>
    /\ issued_tids = <<>>
    /\ sent_log = [r \in BusPids |-> <<>>]
    /\ recv_log = [r \in BusPids |-> <<>>]
    /\ run_start = <<>>
    /\ run_calls = 0
    /\ due = [t \in SchedTids |-> 0]
    /\ ahead = [t \in SchedTids |-> {}]
    /\ gen_pc = [c \in Callers |-> "idle"]
    /\ gen_got = [c \in Callers |-> [g \in Generators |-> <<>>]]

(* ---------------------------------------------------------------------- *)
(* Scheduler operations                                                    *)
(* ---------------------------------------------------------------------- *)
Min(a, b) == IF a <= b THEN a ELSE b

\* due after a call that left the queue q2, with calls = 1 for schedule_next()
\* (returned: the id it returned, 0 if none) and calls = 0 for the others: a
\* thread that was returned or is new in the queue starts afresh from its place
DueAfter(q2, returned, calls) ==
    [t \in SchedTids |->
        IF ~Contains(q2, t) THEN 0
        ELSE IF t = returned \/ ~Contains(ready_queue, t) THEN Position(q2, t)
        ELSE Min(due[t] - calls, Position(q2, t))]

\* threads standing in q
Queued(q) == {q[i] : i \in 1..Len(q)}

\* a thread that enters the queue has everything queued at that moment ahead of it
AheadAfterAdd(tid) ==
    IF Contains(ready_queue, tid) THEN ahead
    ELSE [ahead EXCEPT ![tid] = Queued(ready_queue)]

\* a thread that was returned or removed is ahead of nobody any more
AheadWithout(tid) ==
    [t \in SchedTids |-> IF t = tid THEN ahead[t] ELSE ahead[t] \ {tid}]

\* a thread that left the queue waits for nobody
AheadAfterRemove(tid) == [AheadWithout(tid) EXCEPT ![tid] = {}]

AddThread(tid) ==
    /\ ready_queue' = add_thread(ready_queue, tid)
    /\ ret' = Ret("add_thread", 0, 0, tid, "Ok", 0, "-", NoMsg)
    /\ run_start' = ready_queue'
    /\ run_calls' = 0
    /\ due' = DueAfter(ready_queue', 0, 0)
    /\ ahead' = AheadAfterAdd(tid)
    /\ UNCHANGED <<procVars, busVars, genVars>>

RemoveThread(tid) ==
    /\ ready_queue' = remove_thread(ready_queue, tid)
    /\ ret' = Ret("remove_thread", 0, 0, tid, "Ok", Position(ready_queue, tid), "-", NoMsg)
    /\ run_start' = ready_queue'
    /\ run_calls' = 0
    /\ due' = DueAfter(ready_queue', 0, 0)
    /\ ahead' = AheadAfterRemove(tid)
    /\ UNCHANGED <<procVars, busVars, genVars>>

MarkThreadReady(tid) ==
    /\ ready_queue' = mark_thread_ready(ready_queue, tid)
    /\ ret' = Ret("mark_thread_ready", 0, 0, tid, "Ok", 0, "-", NoMsg)
    /\ run_start' = ready_queue'
    /\ run_calls' = 0
    /\ due' = DueAfter(ready_queue', 0, 0)
    /\ ahead' = AheadAfterAdd(tid)
    /\ UNCHANGED <<procVars, busVars, genVars>>

MarkThreadBlocked(tid) ==
    /\ ready_queue' = mark_thread_blocked(ready_queue, tid)
    /\ ret' = Ret("mark_thread_blocked", 0, 0, tid, "Ok", Position(ready_queue, tid), "-", NoMsg)
    /\ run_start' = ready_queue'
    /\ run_calls' = 0
    /\ due' = DueAfter(ready_queue', 0, 0)
    /\ ahead' = AheadAfterRemove(tid)
    /\ UNCHANGED <<procVars, busVars, genVars>>

ScheduleNext ==
    /\ run_calls < MaxCalls
    /\ ready_queue' = schedule_next(ready_queue)
    /\ ret' = Ret("schedule_next", 0, 0, 0, schedule_next_ret(ready_queue).res,
                  schedule_next_ret(ready_queue).val, "-", NoMsg)
    /\ run_calls' = run_calls + 1
    /\ due' = DueAfter(ready_queue', schedule_next_ret(ready_queue).val, 1)
    /\ ahead' = IF Len(ready_queue) > 0 THEN AheadWithout(Head(ready_queue)) ELSE ahead
    /\ UNCHANGED <<procVars, busVars, genVars, run_start>>

NextSched ==
    \/ \E tid \in SchedTids : AddThread(tid)
    \/ \E tid \in SchedTids : RemoveThread(tid)
    \/ \E tid \in SchedTids : MarkThreadReady(tid)
    \/ \E tid \in SchedTids : MarkThreadBlocked(tid)
    \/ ScheduleNext

\* the scheduler alone, driven directly by a caller
SpecSched == Init /\ [][NextSched]_vars

(* ---------------------------------------------------------------------- *)
(* Process: thread operations on one process record                        *)
(* ---------------------------------------------------------------------- *)
\* Process::create_new_thread, with new_tid already generated: Ok or the
\* collision error, and the process afterwards
create_new_thread_ok(process, new_tid) == ~ContainsKey(process.threads, new_tid)

create_new_thread_running(process, new_tid) ==
    IF ContainsKey(process.threads, new_tid)
    THEN process
    ELSE [process EXCEPT !.threads = Insert(@, new_tid, ThreadNew(new_tid, process.id)),
                         !.state = "Running"]
create_new_thread(process, new_tid) ==
    IF ContainsKey(process.threads, new_tid)
    THEN process
    ELSE [process EXCEPT !.threads = Insert(@, new_tid, ThreadNew(new_tid, process.id))]

\* Process::terminate_existing_thread: the result, and the process afterwards
terminate_existing_thread_res_ok(process, tid) == "Ok"
terminate_existing_thread_res(process, tid) ==
    IF ContainsKey(process.threads, tid) THEN "Ok" ELSE "NotFound"

terminate_existing_thread_marks(process, tid) ==
    IF ContainsKey(process.threads, tid)
    THEN [process EXCEPT !.threads[tid].state = "Terminated"]
    ELSE process
terminate_existing_thread_all(process, tid) ==
    [process EXCEPT !.threads = EmptyMap]
terminate_existing_thread(process, tid) ==
    [process EXCEPT !.threads = Remove(@, tid)]

\* Process::get_thread_state
process_get_thread_state(process, tid) ==
    IF ContainsKey(process.threads, tid)
    THEN [res |-> "Ok", st |-> process.threads[tid].state]
    ELSE [res |-> "NotFound", st |-> "-"]

\* Process::set_thread_state: the result, and the process afterwards
set_thread_state_res(process, tid, new_state) ==
    IF ContainsKey(process.threads, tid) THEN "Ok" ELSE "NotFound"

set_thread_state_toggle(process, tid, new_state) ==
    IF ContainsKey(process.threads, tid)
    THEN [process EXCEPT !.threads[tid].state = IF @ = new_state THEN "Ready" ELSE new_state]
    ELSE process
set_thread_state_all(process, tid, new_state) ==
    IF ContainsKey(process.threads, tid)
    THEN [process EXCEPT !.threads = [t \in DOMAIN @ |-> [@[t] EXCEPT !.state = new_state]]]
    ELSE process
set_thread_state(process, tid, new_state) ==
    IF ContainsKey(process.threads, tid)
    THEN [process EXCEPT !.threads[tid].state = new_state]
    ELSE process

(* ---------------------------------------------------------------------- *)
(* SimpleProcessManager: what each operation returns on the process map ps *)
(* of one manager, and the map it leaves                                   *)
(* ---------------------------------------------------------------------- *)
\* terminate_process
terminate_process_res(ps, pid) == IF ContainsKey(ps, pid) THEN "Ok" ELSE "NotFound"

terminate_process_keeps(ps, pid) == ps
terminate_process(ps, pid) == Remove(ps, pid)

\* get_process_state
get_process_state(ps, pid) ==
    IF ContainsKey(ps, pid)
    THEN [res |-> "Ok", st |-> ps[pid].state]
    ELSE [res |-> "NotFound", st |-> "-"]

\* create_thread, with new_tid the id generate_tid() hands out if it is called
create_thread_res(ps, pid, new_tid) ==
    IF ContainsKey(ps, pid)
    THEN IF create_new_thread_ok(ps[pid], new_tid) THEN "Ok" ELSE "IPCError"
    ELSE "NotFound"

create_thread(ps, pid, new_tid) ==
    IF ContainsKey(ps, pid)
    THEN [ps EXCEPT ![pid] = create_new_thread(@, new_tid)]
    ELSE ps

\* terminate_thread
terminate_thread_res(ps, pid, tid) ==
    IF ContainsKey(ps, pid) THEN terminate_existing_thread_res(ps[pid], tid) ELSE "NotFound"

terminate_thread(ps, pid, tid) ==
    IF ContainsKey(ps, pid)
    THEN [ps EXCEPT ![pid] = terminate_existing_thread(@, tid)]
    ELSE ps

\* sleep_thread: _duration_ms is not read
sleep_thread_res(ps, pid, tid, duration_ms) ==
    IF ContainsKey(ps, pid) THEN set_thread_state_res(ps[pid], tid, "Blocked") ELSE "NotFound"

sleep_thread(ps, pid, tid, duration_ms) ==
    IF ContainsKey(ps, pid)
    THEN [ps EXCEPT ![pid] = set_thread_state(@, tid, "Blocked")]
    ELSE ps

\* get_thread_state
get_thread_state(ps, pid, tid) ==
    IF ContainsKey(ps, pid)
    THEN process_get_thread_state(ps[pid], tid)
    ELSE [res |-> "NotFound", st |-> "-"]

(* ---------------------------------------------------------------------- *)
(* Registry operations (SimpleProcessManager), on manager m                *)
(* ---------------------------------------------------------------------- *)
CreateProcess(m) ==
    /\ next_pid <= MaxPid
    /\ LET new_pid == next_pid IN
       /\ next_pid' = pid_fetch_add(next_pid)
       /\ IF ContainsKey(processes[m], new_pid)
          THEN /\ ret' = Ret("create_process", m, 0, 0, "IPCError", 0, "-", NoMsg)
               /\ UNCHANGED <<processes, issued_pids>>
          ELSE /\ processes' = [processes EXCEPT ![m] = Insert(@, new_pid, ProcessNew(new_pid))]
               /\ ret' = Ret("create_process", m, 0, 0, "Ok", new_pid, "-", NoMsg)
               /\ issued_pids' = Append(issued_pids, new_pid)
    /\ UNCHANGED <<next_tid, issued_tids, schedVars, busVars, genVars>>

TerminateProcess_purging(m, pid) ==
    /\ processes' = [processes EXCEPT ![m] = terminate_process(@, pid)]
    /\ ret' = [Ret("terminate_process", m, pid, 0, terminate_process_res(processes[m], pid),
                   0, "-", NoMsg)
                  EXCEPT !.dropped = IF ContainsKey(processes[m], pid)
                                     THEN DOMAIN processes[m][pid].threads ELSE {}]
    /\ queues' = Remove(queues, pid)
    /\ UNCHANGED <<next_pid, next_tid, issued_pids, issued_tids, schedVars, genVars,
                   next_mid, outbox, sent_log, recv_log>>
TerminateProcess(m, pid) ==
    /\ processes' = [processes EXCEPT ![m] = terminate_process(@, pid)]
    /\ ret' = [Ret("terminate_process", m, pid, 0, terminate_process_res(processes[m], pid),
                   0, "-", NoMsg)
                  EXCEPT !.dropped = IF ContainsKey(processes[m], pid)
                                     THEN DOMAIN processes[m][pid].threads ELSE {}]
    /\ UNCHANGED <<next_pid, next_tid, issued_pids, issued_tids, schedVars, busVars, genVars>>

GetProcessState(m, pid) ==
    /\ ret' = Ret("get_process_state", m, pid, 0, get_process_state(processes[m], pid).res,
                  0, get_process_state(processes[m], pid).st, NoMsg)
    /\ UNCHANGED <<procVars, schedVars, busVars, genVars>>

CreateThread(m, pid) ==
    /\ IF ContainsKey(processes[m], pid)
       THEN /\ next_tid <= MaxTid
            /\ LET new_tid == next_tid IN
               /\ next_tid' = tid_fetch_add(next_tid)
               /\ processes' = [processes EXCEPT ![m] = create_thread(@, pid, new_tid)]
               /\ IF create_thread_res(processes[m], pid, new_tid) = "Ok"
                  THEN /\ ret' = Ret("create_thread", m, pid, 0, "Ok", new_tid, "-", NoMsg)
                       /\ issued_tids' = Append(issued_tids, new_tid)
                  ELSE /\ ret' = Ret("create_thread", m, pid, 0, "IPCError", 0, "-", NoMsg)
                       /\ UNCHANGED issued_tids
       ELSE /\ ret' = Ret("create_thread", m, pid, 0,
                          create_thread_res(processes[m], pid, next_tid), 0, "-", NoMsg)
            /\ UNCHANGED <<next_tid, processes, issued_tids>>
    /\ UNCHANGED <<next_pid, issued_pids, schedVars, busVars, genVars>>

TerminateThread(m, pid, tid) ==
    /\ processes' = [processes EXCEPT ![m] = terminate_thread(@, pid, tid)]
    /\ ret' = Ret("terminate_thread", m, pid, tid, terminate_thread_res(processes[m], pid, tid),
                  0, "-", NoMsg)
    /\ UNCHANGED <<next_pid, next_tid, issued_pids, issued_tids, schedVars, busVars, genVars>>

SleepThread(m, pid, tid, duration_ms) ==
    /\ processes' = [processes EXCEPT ![m] = sleep_thread(@, pid, tid, duration_ms)]
    /\ ret' = Ret("sleep_thread", m, pid, tid,
                  sleep_thread_res(processes[m], pid, tid, duration_ms), duration_ms, "-", NoMsg)
    /\ UNCHANGED <<next_pid, next_tid, issued_pids, issued_tids, schedVars, busVars, genVars>>

GetThreadState(m, pid, tid) ==
    /\ ret' = Ret("get_thread_state", m, pid, tid, get_thread_state(processes[m], pid, tid).res,
                  0, get_thread_state(processes[m], pid, tid).st, NoMsg)
    /\ UNCHANGED <<procVars, schedVars, busVars, genVars>>

\* every (manager, pid) of a live process
LiveProcesses == {mp \in Managers \X PidArgs : ContainsKey(processes[mp[1]], mp[2])}

ThreadsOf(mp) == processes[mp[1]][mp[2]].threads

\* tid is a thread of some live process and its state is Ready
IsReadyThread(tid) ==
    \E mp \in LiveProcesses :
        /\ ContainsKey(ThreadsOf(mp), tid)
        /\ ThreadsOf(mp)[tid].state = "Ready"

\* operations of the managers in M that create or destroy processes and threads
NextAlloc(M) ==
    \/ \E m \in M : CreateProcess(m)
    \/ \E m \in M, pid \in PidArgs : TerminateProcess(m, pid)
    \/ \E m \in M, pid \in PidArgs : CreateThread(m, pid)
    \/ \E m \in M, pid \in PidArgs, tid \in TidArgs : TerminateThread(m, pid, tid)

\* every operation of the managers in M that changes the registry
NextLifecycle(M) ==
    \/ NextAlloc(M)
    \/ \E m \in M, pid \in PidArgs, tid \in TidArgs, d \in Durations :
           SleepThread(m, pid, tid, d)

\* queries of the managers in M
NextQuery(M) ==
    \/ \E m \in M, pid \in PidArgs : GetProcessState(m, pid)
    \/ \E m \in M, pid \in PidArgs, tid \in TidArgs : GetThreadState(m, pid, tid)

\* one registry, every operation
NextProc == NextLifecycle({1}) \/ NextQuery({1})

SpecProc == Init /\ [][NextProc]_vars

\* several managers side by side on the shared static counters
NextMgrs == NextAlloc(Managers)

SpecMgrs == Init /\ [][NextMgrs]_vars

\* One registry and one scheduler driven by one caller.  No registry operation
\* touches the scheduler, so the caller does the queueing by hand, and does it
\* carefully: it queues only ids of threads that are Ready at that moment.
NextReg ==
    \/ NextLifecycle({1})
    \/ \E tid \in SchedTids : IsReadyThread(tid) /\ AddThread(tid)
    \/ \E tid \in SchedTids : IsReadyThread(tid) /\ MarkThreadReady(tid)
    \/ \E tid \in SchedTids : RemoveThread(tid)
    \/ \E tid \in SchedTids : MarkThreadBlocked(tid)
    \/ ScheduleNext

SpecReg == Init /\ [][NextReg]_vars

\* One registry and one scheduler, the caller acting only on what exists: it
\* creates, puts to sleep and terminates live threads and processes, queues
\* threads that are Ready and dispatches with schedule_next().
NextDisp ==
    \/ CreateProcess(1)
    \/ \E mp \in LiveProcesses : CreateThread(mp[1], mp[2])
    \/ \E mp \in LiveProcesses : TerminateProcess(mp[1], mp[2])
    \/ \E mp \in LiveProcesses :
           \E tid \in DOMAIN ThreadsOf(mp) : TerminateThread(mp[1], mp[2], tid)
    \/ \E mp \in LiveProcesses :
           \E tid \in DOMAIN ThreadsOf(mp) : SleepThread(mp[1], mp[2], tid, 0)
    \/ \E tid \in SchedTids : IsReadyThread(tid) /\ AddThread(tid)
    \/ ScheduleNext

SpecDisp == Init /\ [][NextDisp]_vars

(* ---------------------------------------------------------------------- *)
(* Message bus operations                                                  *)
(* ---------------------------------------------------------------------- *)
\* Message::new(sender_pid, receiver_pid, payload): stamps a fresh id
NewMessage(sender_pid, receiver_pid, payload) ==
    /\ next_mid <= MaxMid
    /\ next_mid' = mid_fetch_add(next_mid)
    /\ outbox' = outbox \cup {MessageNew(next_mid, sender_pid, receiver_pid, payload)}
    /\ ret' = Ret("message_new", 0, 0, 0, "Ok", next_mid, "-", NoMsg)
    /\ UNCHANGED <<queues, sent_log, recv_log, procVars, schedVars, genVars>>

\* send_message(message): the message is moved into the bus
SendMessage(message) ==
    /\ message \in outbox
    /\ queues' = send_message(queues, message)
    /\ outbox' = outbox \ {message}
    /\ ret' = Ret("send_message", 0, message.receiver_pid, 0, "Ok", message.id, "-", NoMsg)
    /\ sent_log' = [sent_log EXCEPT ![message.receiver_pid] = Append(@, message)]
    /\ UNCHANGED <<next_mid, recv_log, procVars, schedVars, genVars>>

ReceiveMessage(receiver_pid) ==
    /\ queues' = receive_message_rest(queues, receiver_pid)
    /\ IF receive_has(queues, receiver_pid)
       THEN /\ ret' = Ret("receive_message", 0, receiver_pid, 0, "Ok", 0, "-",
                          receive_message(queues, receiver_pid))
            /\ recv_log' = [recv_log EXCEPT ![receiver_pid] =
                               Append(@, receive_message(queues, receiver_pid))]
       ELSE /\ ret' = Ret("receive_message", 0, receiver_pid, 0, "NotFound", 0, "-", NoMsg)
            /\ UNCHANGED recv_log
    /\ UNCHANGED <<next_mid, outbox, sent_log, procVars, schedVars, genVars>>

TryReceiveMessage(receiver_pid) ==
    /\ queues' = try_receive_message_rest(queues, receiver_pid)
    /\ IF try_receive_has(queues, receiver_pid)
       THEN /\ ret' = Ret("try_receive_message", 0, receiver_pid, 0, "Ok", 0, "Some",
                          try_receive_message(queues, receiver_pid))
            /\ recv_log' = [recv_log EXCEPT ![receiver_pid] =
                               Append(@, try_receive_message(queues, receiver_pid))]
       ELSE /\ ret' = Ret("try_receive_message", 0, receiver_pid, 0, "Ok", 0, "None", NoMsg)
            /\ UNCHANGED recv_log
    /\ UNCHANGED <<next_mid, outbox, sent_log, procVars, schedVars, genVars>>

NextBus ==
    \/ \E s \in BusPids, r \in BusPids, p \in Payloads : NewMessage(s, r, p)
    \/ \E message \in outbox : SendMessage(message)
    \/ \E r \in BusPids : ReceiveMessage(r)
    \/ \E r \in BusPids : TryReceiveMessage(r)

\* the message bus alone
SpecBus == Init /\ [][NextBus]_vars

(* ---------------------------------------------------------------------- *)
(* The id generators called by several callers at once                     *)
(* ---------------------------------------------------------------------- *)
\* the static counter behind generator g
Counter(g) ==
    IF g = "generate_pid" THEN next_pid
    ELSE IF g = "generate_tid" THEN next_tid
    ELSE next_mid

\* the largest id generator g hands out in the model
MaxId(g) ==
    IF g = "generate_pid" THEN MaxPid
    ELSE IF g = "generate_tid" THEN MaxTid
    ELSE MaxMid

\* callers that have entered g and not yet executed its fetch_add
Inside(g) == {c \in Callers : gen_pc[c] = g}

\* caller c enters generator g, while other callers may be inside it
CallGenerate(c, g) ==
    /\ gen_pc[c] = "idle"
    /\ Counter(g) + Cardinality(Inside(g)) <= MaxId(g)
    /\ gen_pc' = [gen_pc EXCEPT ![c] = g]
    /\ UNCHANGED <<procVars, schedVars, busVars, ret, gen_got>>

\* generate_pid(): NEXT_PROCESS_ID.fetch_add(1, Relaxed), one atomic
\* read-modify-write that returns the value read
GeneratePid(c) ==
    /\ gen_pc[c] = "generate_pid"
    /\ next_pid' = pid_fetch_add(next_pid)
    /\ gen_got' = [gen_got EXCEPT ![c]["generate_pid"] = Append(@, next_pid)]
    /\ gen_pc' = [gen_pc EXCEPT ![c] = "idle"]
    /\ UNCHANGED <<next_tid, processes, issued_pids, issued_tids, schedVars, busVars, ret>>

\* generate_tid(): NEXT_THREAD_ID.fetch_add(1, Relaxed)
GenerateTid(c) ==
    /\ gen_pc[c] = "generate_tid"
    /\ next_tid' = tid_fetch_add(next_tid)
    /\ gen_got' = [gen_got EXCEPT ![c]["generate_tid"] = Append(@, next_tid)]
    /\ gen_pc' = [gen_pc EXCEPT ![c] = "idle"]
    /\ UNCHANGED <<next_pid, processes, issued_pids, issued_tids, schedVars, busVars, ret>>

\* generate_mid(): NEXT_MESSAGE_ID.fetch_add(1, Relaxed)
GenerateMid(c) ==
    /\ gen_pc[c] = "generate_mid"
    /\ next_mid' = mid_fetch_add(next_mid)
    /\ gen_got' = [gen_got EXCEPT ![c]["generate_mid"] = Append(@, next_mid)]
    /\ gen_pc' = [gen_pc EXCEPT ![c] = "idle"]
    /\ UNCHANGED <<procVars, schedVars, queues, outbox, sent_log, recv_log, ret>>

NextGen ==
    \/ \E c \in Callers, g \in Generators : CallGenerate(c, g)
    \/ \E c \in Callers : GeneratePid(c)
    \/ \E c \in Callers : GenerateTid(c)
    \/ \E c \in Callers : GenerateMid(c)

\* the three generators alone, under concurrent callers
SpecGen == Init /\ [][NextGen]_vars

\* One registry and one bus side by side: processes come and go while
\* messages are sent to and received under their pids.
NextMail ==
    \/ CreateProcess(1)
    \/ \E mp \in LiveProcesses : TerminateProcess(mp[1], mp[2])
    \/ \E s \in BusPids, r \in BusPids : NewMessage(s, r, <<>>)
    \/ \E message \in outbox : SendMessage(message)
    \/ \E r \in BusPids : ReceiveMessage(r)

SpecMail == Init /\ [][NextMail]_vars

(* ====================================================================== *)
(* Properties                                                              *)
(* ====================================================================== *)
IsPrefix(a, b) == Len(a) <= Len(b) /\ SubSeq(b, 1, Len(a)) = a

Elems(q) == {q[i] : i \in 1..Len(q)}

\* C1: for every receiver, the messages returned by receive_message and
\* try_receive_message come out in exactly the order in which they were sent
\* to that receiver: what was received is always a prefix of what was sent.
C1_FifoPerReceiver ==
    \A r \in BusPids : IsPrefix(recv_log[r], sent_log[r])

\* C1 witness: one receiver got two messages from two different senders, the
\* one constructed later having been sent (and received) first.
C1_Witness ==
    \E r \in BusPids :
        /\ Len(recv_log[r]) >= 2
        /\ recv_log[r][1].sender_pid # recv_log[r][2].sender_pid
        /\ recv_log[r][1].id > recv_log[r][2].id

\* C2: with n >= 1 threads queued and no add_thread/remove_thread in between,
\* the k-th schedule_next() call (k = 0, 1, ...) returns the thread at position
\* k mod n of the queue the run started with, so the calls repeat with period n.
C2_RoundRobinPeriod ==
    (run_calls >= 1 /\ Len(run_start) >= 1) =>
        /\ ret.op = "schedule_next"
        /\ ret.res = "Some"
        /\ ret.val = run_start[((run_calls - 1) % Len(run_start)) + 1]

\* C2 witness: T1, T2, T3 queued in that order, and the fourth call returned T1.
C2_Witness ==
    /\ run_start = <<1, 2, 3>>
    /\ run_calls = 4
    /\ ret.op = "schedule_next"
    /\ ret.val = 1

\* C3: every ThreadId in the ready queue is the id of a thread that exists in
\* some live process and whose ThreadState is Ready.
C3_ReadyQueueHoldsReadyThreads ==
    \A i \in 1..Len(ready_queue) :
        \E mp \in LiveProcesses :
            /\ ContainsKey(ThreadsOf(mp), ready_queue[i])
            /\ ThreadsOf(mp)[ready_queue[i]].state = "Ready"

\* C4: after create_thread(pid) succeeds and returns tid, tid is present in the
\* scheduler's ready queue.
C4_CreatedThreadIsQueued ==
    (ret.op = "create_thread" /\ ret.res = "Ok") => Contains(ready_queue, ret.val)

\* C5: after a successful terminate_thread(pid, tid) or sleep_thread(pid, tid, _),
\* tid is absent from the scheduler's ready queue.
C5_RemovedThreadNotQueued ==
    (ret.op \in {"terminate_thread", "sleep_thread"} /\ ret.res = "Ok") =>
        ~Contains(ready_queue, ret.tid)

\* C6: after a successful terminate_process(pid), no thread that belonged to pid
\* remains in the scheduler's ready queue.
C6_TerminatedProcessThreadsNotQueued ==
    (ret.op = "terminate_process" /\ ret.res = "Ok") =>
        \A tid \in ret.dropped : ~Contains(ready_queue, tid)

\* C7: the ProcessIds returned by create_process are pairwise distinct, start at
\* 1 and strictly increase, whatever was terminated in between and whichever
\* manager was asked.
C7_PidsStartAtOneAndIncrease ==
    /\ Len(issued_pids) >= 1 => issued_pids[1] = 1
    /\ \A i \in 1..Len(issued_pids) : \A j \in 1..Len(issued_pids) :
           i < j => issued_pids[i] < issued_pids[j]

\* C7 witness: create_process just returned a second id although no process
\* with the first id is left anywhere.
C7_Witness ==
    /\ ret.op = "create_process"
    /\ ret.res = "Ok"
    /\ ret.val = 2
    /\ issued_pids = <<1, 2>>
    /\ \A m \in Managers : ~ContainsKey(processes[m], 1)

\* C8: no ThreadId is a key of the thread maps of two different processes, and
\* the ids returned by create_thread over all processes of all managers are
\* pairwise distinct (none is issued again after its thread was terminated).
C8_TidsGloballyUnique ==
    /\ \A a \in LiveProcesses : \A b \in LiveProcesses :
           a # b => (DOMAIN ThreadsOf(a)) \cap (DOMAIN ThreadsOf(b)) = {}
    /\ \A i \in 1..Len(issued_tids) : \A j \in 1..Len(issued_tids) :
           i # j => issued_tids[i] # issued_tids[j]

\* C8 witness: create_thread just succeeded in a process of one manager while a
\* process of another manager has no thread left, its thread having been
\* terminated earlier.
C8_Witness ==
    /\ ret.op = "create_thread"
    /\ ret.res = "Ok"
    /\ Len(issued_tids) = 2
    /\ \E a \in LiveProcesses : \E b \in LiveProcesses :
           /\ a[1] # b[1]
           /\ DOMAIN ThreadsOf(a) = {ret.val}
           /\ DOMAIN ThreadsOf(b) = {}

\* C9: isolation.  A receive_message(B) or try_receive_message(B) returns only
\* a message that was sent to B and to no other receiver, and it leaves the
\* queue of every other receiver A (its existence, content and order) unchanged.
C9_Isolation ==
    [][\A B \in BusPids :
          (ReceiveMessage(B) \/ TryReceiveMessage(B)) =>
              /\ ret'.msg # NoMsg =>
                    /\ ret'.msg.receiver_pid = B
                    /\ ret'.msg \in Elems(sent_log[B])
                    /\ \A A \in BusPids \ {B} : ret'.msg \notin Elems(sent_log[A])
              /\ \A A \in BusPids \ {B} :
                    /\ ContainsKey(queues', A) <=> ContainsKey(queues, A)
                    /\ ContainsKey(queues, A) => queues'[A] = queues[A]]_vars

\* C9 witness: a receive under one pid returned a message while a message for
\* another pid is still queued.
C9_Witness ==
    /\ ret.op \in {"receive_message", "try_receive_message"}
    /\ ret.msg # NoMsg
    /\ \E A \in BusPids \ {ret.pid} : ContainsKey(queues, A) /\ Len(queues[A]) > 0

\* C10: the ready queue never contains the same ThreadId twice, and add_thread
\* (or mark_thread_ready) of a tid that is already queued returns Ok and leaves
\* the queue unchanged.
C10_NoDuplicateInReadyQueue ==
    /\ [](\A i \in 1..Len(ready_queue) : \A j \in 1..Len(ready_queue) :
             i # j => ready_queue[i] # ready_queue[j])
    /\ [][\A tid \in SchedTids :
             ((AddThread(tid) \/ MarkThreadReady(tid)) /\ Contains(ready_queue, tid)) =>
                 (ready_queue' = ready_queue /\ ret'.res = "Ok")]_vars

\* C10 witness: add_thread(tid) was called for a tid queued somewhere before the
\* back of a longer queue, so nothing was appended.
C10_Witness ==
    /\ ret.op = "add_thread"
    /\ ret.res = "Ok"
    /\ Len(ready_queue) >= 2
    /\ Contains(ready_queue, ret.tid)
    /\ ready_queue[Len(ready_queue)] # ret.tid

\* C11: starvation-freedom.  A thread standing at position k (0-based) of the
\* ready queue is returned within k + 1 schedule_next() calls, whatever
\* add_thread calls and remove_thread calls on other threads come in between:
\* no queued thread ever runs out of calls before it is returned.
C11_ReturnedWithinPositionPlusOne ==
    \A t \in SchedTids : Contains(ready_queue, t) => due[t] >= 1

\* C11 witness: thread 3 stood at position 2 behind threads 1 and 2 and was
\* returned by the third schedule_next() call.
C11_Witness ==
    /\ run_start = <<1, 2, 3>>
    /\ run_calls = 3
    /\ ret.op = "schedule_next"
    /\ ret.val = 3

\* C12: a freshly created process has state New and an empty thread map, and a
\* freshly created thread has state Ready: right after create_process returned
\* pid, get_process_state(pid) returns New; right after create_thread(pid)
\* returned tid, get_thread_state(pid, tid) returns Ready.
C12_FreshProcessNewFreshThreadReady ==
    /\ (ret.op = "create_process" /\ ret.res = "Ok") =>
          /\ get_process_state(processes[ret.mgr], ret.val) = [res |-> "Ok", st |-> "New"]
          /\ processes[ret.mgr][ret.val].threads = EmptyMap
    /\ (ret.op = "create_thread" /\ ret.res = "Ok") =>
          get_thread_state(processes[ret.mgr], ret.pid, ret.val) = [res |-> "Ok", st |-> "Ready"]

\* C12 witness: create_thread returned a new thread id for a process whose
\* earlier thread has been put to sleep.
C12_Witness ==
    /\ ret.op = "create_thread"
    /\ ret.res = "Ok"
    /\ \E t \in DOMAIN processes[ret.mgr][ret.pid].threads :
          processes[ret.mgr][ret.pid].threads[t].state = "Blocked"

\* C13: after a successful terminate_process(pid), get_process_state(pid) and a
\* second terminate_process(pid) fail with NotFound; both also fail with
\* NotFound on a pid that was never created.
C13_TerminatedOrUnknownProcessNotFound ==
    /\ (ret.op = "terminate_process" /\ ret.res = "Ok") =>
          /\ get_process_state(processes[ret.mgr], ret.pid).res = "NotFound"
          /\ terminate_process_res(processes[ret.mgr], ret.pid) = "NotFound"
    /\ \A m \in Managers, pid \in PidArgs :
          (~ \E i \in 1..Len(issued_pids) : issued_pids[i] = pid) =>
              /\ get_process_state(processes[m], pid).res = "NotFound"
              /\ terminate_process_res(processes[m], pid) = "NotFound"

\* C13 witness: a second terminate_process on a pid that had been created and
\* terminated returned NotFound.
C13_Witness ==
    /\ ret.op = "terminate_process"
    /\ ret.res = "NotFound"
    /\ \E i \in 1..Len(issued_pids) : issued_pids[i] = ret.pid

\* C14: terminate_process(pid) removes the process and all of its threads in one
\* step: right after it succeeded, get_thread_state, terminate_thread,
\* sleep_thread and create_thread with that pid fail with NotFound for every
\* tid, the ones the process owned included, and no live process holds a
\* thread the process owned.
C14_TerminateProcessDropsItsThreads ==
    (ret.op = "terminate_process" /\ ret.res = "Ok") =>
        /\ \A tid \in TidArgs \cup ret.dropped :
              /\ get_thread_state(processes[ret.mgr], ret.pid, tid).res = "NotFound"
              /\ terminate_thread_res(processes[ret.mgr], ret.pid, tid) = "NotFound"
              /\ \A d \in Durations :
                    sleep_thread_res(processes[ret.mgr], ret.pid, tid, d) = "NotFound"
        /\ create_thread_res(processes[ret.mgr], ret.pid, next_tid) = "NotFound"
        /\ \A mp \in LiveProcesses : (DOMAIN ThreadsOf(mp)) \cap ret.dropped = {}

\* C14 witness: the terminated process owned two threads.
C14_Witness ==
    /\ ret.op = "terminate_process"
    /\ ret.res = "Ok"
    /\ Cardinality(ret.dropped) >= 2

\* C15: after a successful terminate_thread(pid, tid), get_thread_state(pid, tid)
\* fails with NotFound and get_process_state(pid) still succeeds; the call
\* changes the state of no other thread and of no process.  (The call that was
\* made is read back from the record it left in ret.)
C15_TerminateThreadOnlyThatThread ==
    /\ [](ret.op = "terminate_thread" /\ ret.res = "Ok" =>
             /\ get_thread_state(processes[ret.mgr], ret.pid, ret.tid).res = "NotFound"
             /\ get_process_state(processes[ret.mgr], ret.pid).res = "Ok")
    /\ [][(/\ ret'.op = "terminate_thread"
            /\ ret'.res = "Ok"
            /\ TerminateThread(ret'.mgr, ret'.pid, ret'.tid)) =>
               LET m == ret'.mgr IN
                 /\ \A p \in PidArgs :
                       get_process_state(processes'[m], p) = get_process_state(processes[m], p)
                 /\ \A p \in PidArgs, t \in TidArgs :
                       <<p, t>> # <<ret'.pid, ret'.tid>> =>
                           get_thread_state(processes'[m], p, t) =
                               get_thread_state(processes[m], p, t)]_vars

\* C15 witness: a thread was terminated while its process keeps another
\* thread, which is still Blocked.
C15_Witness ==
    /\ ret.op = "terminate_thread"
    /\ ret.res = "Ok"
    /\ \E t \in TidArgs :
          get_thread_state(processes[ret.mgr], ret.pid, t) = [res |-> "Ok", st |-> "Blocked"]

\* C16: terminate_thread, sleep_thread and get_thread_state fail with NotFound
\* when pid is not a live process or tid is not a thread of that process, a
\* tid that is a live thread of a different process included; create_thread
\* fails with NotFound when pid is not a live process.
C16_WrongProcessOrThreadNotFound ==
    \A m \in Managers, pid \in PidArgs :
        /\ ~ContainsKey(processes[m], pid) =>
              create_thread_res(processes[m], pid, next_tid) = "NotFound"
        /\ \A tid \in TidArgs :
              ~(ContainsKey(processes[m], pid) /\ ContainsKey(processes[m][pid].threads, tid)) =>
                  /\ terminate_thread_res(processes[m], pid, tid) = "NotFound"
                  /\ get_thread_state(processes[m], pid, tid).res = "NotFound"
                  /\ \A d \in Durations :
                        sleep_thread_res(processes[m], pid, tid, d) = "NotFound"

\* C16 witness: terminate_thread(pid, tid) returned NotFound for a live process
\* pid and a tid that is a live thread of a different process.
C16_Witness ==
    /\ ret.op = "terminate_thread"
    /\ ret.res = "NotFound"
    /\ ContainsKey(processes[ret.mgr], ret.pid)
    /\ \E p \in DOMAIN processes[ret.mgr] :
          p # ret.pid /\ ContainsKey(processes[ret.mgr][p].threads, ret.tid)

\* C17: a successful sleep_thread(pid, tid, d) sets that thread to Blocked for
\* any duration d, so that get_thread_state(pid, tid) returns Blocked, and it
\* changes no other thread and no process state.  (The call that was made,
\* its duration included, is read back from the record it left in ret.)
C17_SleepBlocksOnlyThatThread ==
    /\ [](ret.op = "sleep_thread" /\ ret.res = "Ok" =>
             get_thread_state(processes[ret.mgr], ret.pid, ret.tid) =
                 [res |-> "Ok", st |-> "Blocked"])
    /\ [][(/\ ret'.op = "sleep_thread"
            /\ ret'.res = "Ok"
            /\ SleepThread(ret'.mgr, ret'.pid, ret'.tid, ret'.val)) =>
               LET m == ret'.mgr IN
                 /\ \A p \in PidArgs :
                       get_process_state(processes'[m], p) = get_process_state(processes[m], p)
                 /\ \A p \in PidArgs, t \in TidArgs :
                       <<p, t>> # <<ret'.pid, ret'.tid>> =>
                           get_thread_state(processes'[m], p, t) =
                               get_thread_state(processes[m], p, t)]_vars

\* C17 witness: sleep_thread with a non-zero duration succeeded on one thread
\* of a process whose other thread is still Ready.
C17_Witness ==
    /\ ret.op = "sleep_thread"
    /\ ret.res = "Ok"
    /\ ret.val = 100
    /\ \E t \in TidArgs :
          get_thread_state(processes[ret.mgr], ret.pid, t) = [res |-> "Ok", st |-> "Ready"]

\* C18: when the receiver has no queue or its queue is empty,
\* receive_message(pid) fails with NotFound and try_receive_message(pid)
\* returns Ok(None); each is a single step that leaves the bus unchanged.
C18_EmptyReceiveLeavesBusUnchanged ==
    [][\A r \in BusPids :
          ~(ContainsKey(queues, r) /\ Len(queues[r]) > 0) =>
              /\ ReceiveMessage(r) =>
                    /\ ret'.res = "NotFound"
                    /\ ret'.msg = NoMsg
                    /\ queues' = queues
              /\ TryReceiveMessage(r) =>
                    /\ ret'.res = "Ok"
                    /\ ret'.st = "None"
                    /\ ret'.msg = NoMsg
                    /\ queues' = queues]_vars

\* C18 witness: receive_message returned NotFound on a queue that exists and
\* has been emptied, while the other receiver's queue still holds a message.
C18_Witness ==
    /\ ret.op = "receive_message"
    /\ ret.res = "NotFound"
    /\ ContainsKey(queues, ret.pid)
    /\ Len(recv_log[ret.pid]) > 0
    /\ \E r \in DOMAIN queues : Len(queues[r]) > 0

\* C19: a message returned by receive_message or try_receive_message has
\* exactly the id, sender_pid, receiver_pid and payload of the message that
\* was passed to send_message, and its receiver_pid is the pid it was
\* received under.
C19_ReceivedMessageIntact ==
    ((ret.op = "receive_message" /\ ret.res = "Ok")
        \/ (ret.op = "try_receive_message" /\ ret.st = "Some")) =>
        /\ Len(recv_log[ret.pid]) >= 1
        /\ Len(recv_log[ret.pid]) <= Len(sent_log[ret.pid])
        /\ ret.msg = sent_log[ret.pid][Len(recv_log[ret.pid])]
        /\ ret.msg.receiver_pid = ret.pid

\* C19 witness: try_receive_message returned a message with a non-empty payload
\* that another process had sent.
C19_Witness ==
    /\ ret.op = "try_receive_message"
    /\ ret.st = "Some"
    /\ ret.msg.payload = <<1, 2, 3>>
    /\ ret.msg.sender_pid # ret.pid

\* C20: remove_thread(tid) (or mark_thread_blocked) for a tid that is not in the
\* ready queue, an empty queue included, returns Ok and leaves the queue
\* unchanged.
C20_RemoveAbsentIsNoOp ==
    [][\A tid \in SchedTids :
          ((RemoveThread(tid) \/ MarkThreadBlocked(tid)) /\ ~Contains(ready_queue, tid)) =>
              (ready_queue' = ready_queue /\ ret'.res = "Ok")]_vars

\* C20 witness: remove_thread found no such id in a queue that holds other threads.
C20_Witness ==
    /\ ret.op = "remove_thread"
    /\ ret.res = "Ok"
    /\ ret.val = 0
    /\ Len(ready_queue) >= 2

\* C21: schedule_next() never takes a thread out of rotation: the set of
\* thread ids in the ready queue and the queue length are the same before and
\* after the call, and the returned thread stands at the back afterwards.
C21_ScheduleNextKeepsEveryThread ==
    [][ScheduleNext =>
          /\ Queued(ready_queue') = Queued(ready_queue)
          /\ Len(ready_queue') = Len(ready_queue)
          /\ ret'.res = "Some" => ready_queue'[Len(ready_queue')] = ret'.val]_vars

\* C21 witness: schedule_next() returned a thread from a queue of three, and
\* that thread is now the last of the three.
C21_Witness ==
    /\ ret.op = "schedule_next"
    /\ ret.res = "Some"
    /\ Len(ready_queue) = 3
    /\ ready_queue[3] = ret.val

\* C22: schedule_next() returns None exactly when the ready queue is empty, and
\* then leaves it empty; otherwise it returns the thread at the front.
C22_NoneIffEmptyElseFront ==
    [][ScheduleNext =>
          /\ (ret'.res = "None") <=> (ready_queue = <<>>)
          /\ ready_queue = <<>> => ready_queue' = <<>>
          /\ ready_queue # <<>> => (ret'.res = "Some" /\ ret'.val = ready_queue[1])]_vars

\* C22 witness: schedule_next() returned None at least twice in a row, the
\* queue staying empty.
C22_Witness ==
    /\ ret.op = "schedule_next"
    /\ ret.res = "None"
    /\ ready_queue = <<>>
    /\ run_calls >= 2

\* C23: send_message always returns Ok, whatever the receiver pid (with or
\* without a queue; the bus never looks at the process registry) and whatever
\* the queue length; it creates the receiver's queue if absent and grows that
\* queue by exactly one message at the back, leaving all other queues unchanged.
C23_SendAlwaysAppendsOne ==
    [][\A message \in outbox :
          SendMessage(message) =>
              LET r == message.receiver_pid
                  before == IF ContainsKey(queues, r) THEN queues[r] ELSE <<>>
              IN  /\ ret'.res = "Ok"
                  /\ DOMAIN queues' = (DOMAIN queues) \cup {r}
                  /\ queues'[r] = Append(before, message)
                  /\ \A k \in DOMAIN queues : k # r => queues'[k] = queues[k]]_vars

\* C23 witness: send_message created the queue of a receiver that had none,
\* while the other receiver's queue holds a message.
C23_Witness ==
    /\ ret.op = "send_message"
    /\ ret.res = "Ok"
    /\ Len(sent_log[ret.pid]) = 1
    /\ Len(queues[ret.pid]) = 1
    /\ \E k \in DOMAIN queues : k # ret.pid /\ Len(queues[k]) = 1

\* C24: when several callers run generate_pid, generate_tid or generate_mid
\* concurrently, in any interleaving, no two calls to the same generator
\* return the same id.
C24_ConcurrentIdsUnique ==
    \A g \in Generators :
        \A c1, c2 \in Callers :
            \A i \in 1..Len(gen_got[c1][g]), j \in 1..Len(gen_got[c2][g]) :
                <<c1, i>> # <<c2, j>> => gen_got[c1][g][i] # gen_got[c2][g][j]

\* C24 witness: caller 1 came out of generate_pid with the later id and caller 2
\* with the earlier one, and both callers are inside generate_tid at once.
C24_Witness ==
    /\ gen_got[1]["generate_pid"] = <<2>>
    /\ gen_got[2]["generate_pid"] = <<1>>
    /\ gen_pc[1] = "generate_tid"
    /\ gen_pc[2] = "generate_tid"

\* C25: every live process has state New in every reachable state: no
\* operation ever changes a process's state, whatever happens to its threads.
C25_LiveProcessStaysNew ==
    \A m \in Managers, pid \in PidArgs :
        ContainsKey(processes[m], pid) =>
            /\ processes[m][pid].state = "New"
            /\ get_process_state(processes[m], pid) = [res |-> "Ok", st |-> "New"]

\* C25 witness: get_process_state returned New for a process that has been
\* given threads, one of them put to sleep since and one still Ready.
C25_Witness ==
    /\ ret.op = "get_process_state"
    /\ ret.res = "Ok"
    /\ ret.st = "New"
    /\ \E t1, t2 \in DOMAIN processes[ret.mgr][ret.pid].threads :
          /\ processes[ret.mgr][ret.pid].threads[t1].state = "Blocked"
          /\ processes[ret.mgr][ret.pid].threads[t2].state = "Ready"

\* C26: there is no wakeup: a thread whose state is Blocked is, after any
\* operation, either still Blocked or gone (terminated itself or with its
\* process); it is never Ready again.
C26_BlockedStaysBlocked ==
    [][\A mp \in LiveProcesses :
          \A tid \in DOMAIN ThreadsOf(mp) :
              ThreadsOf(mp)[tid].state = "Blocked" =>
                  \/ get_thread_state(processes'[mp[1]], mp[2], tid) =
                         [res |-> "Ok", st |-> "Blocked"]
                  \/ get_thread_state(processes'[mp[1]], mp[2], tid).res = "NotFound"]_vars

\* C26 witness: get_thread_state found a thread Blocked at a time when a thread
\* created later than it exists and is Ready.
C26_Witness ==
    /\ ret.op = "get_thread_state"
    /\ ret.res = "Ok"
    /\ ret.st = "Blocked"
    /\ \E mp \in LiveProcesses :
          \E t \in DOMAIN ThreadsOf(mp) : t > ret.tid /\ ThreadsOf(mp)[t].state = "Ready"

\* C27: add_thread(tid) for a tid not yet queued puts tid at the back and keeps
\* the order of the threads already queued, so that schedule_next() returns the
\* new thread only after every thread that was queued before it (and is still
\* queued) has been returned once.
C27_AddedThreadWaitsItsTurn ==
    /\ [][\A tid \in SchedTids :
             (AddThread(tid) /\ ~Contains(ready_queue, tid)) =>
                 ready_queue' = Append(ready_queue, tid)]_vars
    /\ [][(ScheduleNext /\ ready_queue # <<>>) => ahead[Head(ready_queue)] = {}]_vars

\* C27 witness: thread 2 was added behind threads 3 and 1 and was returned by
\* the third schedule_next() call after that, once 3 and 1 had had their turn.
C27_Witness ==
    /\ run_start = <<3, 1, 2>>
    /\ run_calls = 3
    /\ ret.op = "schedule_next"
    /\ ret.val = 2
    /\ ahead[2] = {}

\* C28: remove_thread(tid) for a queued tid removes exactly that one entry and
\* keeps the relative order of all remaining threads; the queue length drops
\* by exactly one.
C28_RemoveQueuedTakesOneEntry ==
    [][\A tid \in SchedTids :
          (RemoveThread(tid) /\ Contains(ready_queue, tid)) =>
              /\ Len(ready_queue') = Len(ready_queue) - 1
              /\ ready_queue' = SelectSeq(ready_queue, LAMBDA x : x # tid)
              /\ ret'.res = "Ok"]_vars

\* C28 witness: remove_thread took the front thread out of a queue of three.
C28_Witness ==
    /\ ret.op = "remove_thread"
    /\ ret.val = 1
    /\ Len(ready_queue) = 2

\* C29: from every queue state, mark_thread_ready(tid) has the same result and
\* the same effect on the ready queue as add_thread(tid), and
\* mark_thread_blocked(tid) the same as remove_thread(tid).
C29_MarkReadyBlockedAreAddRemove ==
    /\ [](\A tid \in SchedTids :
             /\ mark_thread_ready(ready_queue, tid) = add_thread(ready_queue, tid)
             /\ mark_thread_blocked(ready_queue, tid) = remove_thread(ready_queue, tid))
    /\ [][\A tid \in SchedTids :
             /\ (AddThread(tid) \/ MarkThreadReady(tid)) =>
                   (ready_queue' = add_thread(ready_queue, tid) /\ ret'.res = "Ok")
             /\ (RemoveThread(tid) \/ MarkThreadBlocked(tid)) =>
                   (ready_queue' = remove_thread(ready_queue, tid) /\ ret'.res = "Ok")]_vars

\* C29 witness: mark_thread_blocked took the second of several queued threads
\* out of the queue.
C29_Witness ==
    /\ ret.op = "mark_thread_blocked"
    /\ ret.val = 2
    /\ Len(ready_queue) >= 2

\* C30: from every bus state and for every receiver, receive_message and
\* try_receive_message leave the bus in the same state and, when a message is
\* queued, return the same message, the front one; they differ only in
\* reporting an empty queue as Err(NotFound) versus Ok(None).
C30_ReceiveAndTryReceiveAgree ==
    /\ [](\A r \in BusPids :
             /\ receive_message_rest(queues, r) = try_receive_message_rest(queues, r)
             /\ receive_has(queues, r) <=> try_receive_has(queues, r)
             /\ receive_has(queues, r) =>
                   /\ receive_message(queues, r) = Head(queues[r])
                   /\ try_receive_message(queues, r) = Head(queues[r]))
    /\ [][\A r \in BusPids :
             /\ ReceiveMessage(r) =>
                   /\ queues' = try_receive_message_rest(queues, r)
                   /\ ret'.msg = try_receive_message(queues, r)
                   /\ ret'.res = IF try_receive_has(queues, r) THEN "Ok" ELSE "NotFound"
             /\ TryReceiveMessage(r) =>
                   /\ queues' = receive_message_rest(queues, r)
                   /\ ret'.msg = receive_message(queues, r)
                   /\ ret'.res = "Ok"
                   /\ ret'.st = IF receive_has(queues, r) THEN "Some" ELSE "None"]_vars

\* C30 witness: try_receive_message returned the front message of a queue that
\* held two, the second one still being queued.
C30_Witness ==
    /\ ret.op = "try_receive_message"
    /\ ret.st = "Some"
    /\ ContainsKey(queues, ret.pid)
    /\ Len(queues[ret.pid]) = 1
    /\ queues[ret.pid][1] # ret.msg

\* C31: a registry operation that fails with NotFound (terminate_process,
\* create_thread, terminate_thread, sleep_thread, get_process_state,
\* get_thread_state) leaves the set of processes, every thread map and every
\* thread state unchanged; get_process_state and get_thread_state change
\* nothing even when they succeed.  (The call that was made is read back from
\* the record it left in ret.)
C31_NotFoundAndQueriesChangeNothing ==
    [][/\ (/\ ret'.op = "terminate_process"
           /\ ret'.res = "NotFound"
           /\ TerminateProcess(ret'.mgr, ret'.pid)) => processes' = processes
       /\ (/\ ret'.op = "create_thread"
           /\ ret'.res = "NotFound"
           /\ CreateThread(ret'.mgr, ret'.pid)) => processes' = processes
       /\ (/\ ret'.op = "terminate_thread"
           /\ ret'.res = "NotFound"
           /\ TerminateThread(ret'.mgr, ret'.pid, ret'.tid)) => processes' = processes
       /\ (/\ ret'.op = "sleep_thread"
           /\ ret'.res = "NotFound"
           /\ SleepThread(ret'.mgr, ret'.pid, ret'.tid, ret'.val)) => processes' = processes
       /\ (/\ ret'.op = "get_process_state"
           /\ GetProcessState(ret'.mgr, ret'.pid)) => processes' = processes
       /\ (/\ ret'.op = "get_thread_state"
           /\ GetThreadState(ret'.mgr, ret'.pid, ret'.tid)) => processes' = processes]_vars

\* C31 witness: terminate_thread failed with NotFound on a live process that
\* owns other threads, one of them asleep.
C31_Witness ==
    /\ ret.op = "terminate_thread"
    /\ ret.res = "NotFound"
    /\ ContainsKey(processes[ret.mgr], ret.pid)
    /\ \E t \in DOMAIN processes[ret.mgr][ret.pid].threads :
          processes[ret.mgr][ret.pid].threads[t].state = "Blocked"

\* C32: no message is duplicated or lost by the bus: each sent message is
\* returned by at most one receive call, and for every receiver the number of
\* messages sent to it equals the number received for it plus the number still
\* in its queue (what was received followed by what is queued is exactly what
\* was sent).
C32_NoMessageDuplicatedOrLost ==
    /\ \A r \in BusPids :
          LET queued == IF ContainsKey(queues, r) THEN queues[r] ELSE <<>>
          IN  /\ Len(sent_log[r]) = Len(recv_log[r]) + Len(queued)
              /\ recv_log[r] \o queued = sent_log[r]
    /\ \A r1, r2 \in BusPids :
          \A i \in 1..Len(recv_log[r1]), j \in 1..Len(recv_log[r2]) :
              <<r1, i>> # <<r2, j>> => recv_log[r1][i] # recv_log[r2][j]

\* C32 witness: of two messages sent to one receiver, one has been returned by
\* receive_message and the other is still queued.
C32_Witness ==
    /\ ret.op = "receive_message"
    /\ ret.res = "Ok"
    /\ Len(sent_log[ret.pid]) = 2
    /\ Len(recv_log[ret.pid]) = 1
    /\ Len(queues[ret.pid]) = 1

\* C33: in every reachable state the thread stored under key tid in the thread
\* map of process pid has id = tid and process_id = pid, and the process stored
\* under key pid in a registry has id = pid.
C33_KeysMatchStoredIds ==
    \A mp \in LiveProcesses :
        /\ processes[mp[1]][mp[2]].id = mp[2]
        /\ \A tid \in DOMAIN ThreadsOf(mp) :
              /\ ThreadsOf(mp)[tid].id = tid
              /\ ThreadsOf(mp)[tid].process_id = mp[2]

\* C33 witness: create_thread has just stored a thread whose id differs from
\* the id of its process, in the registry of the second manager.
C33_Witness ==
    /\ ret.op = "create_thread"
    /\ ret.res = "Ok"
    /\ ret.mgr = 2
    /\ ret.val # ret.pid
    /\ ContainsKey(processes[2][ret.pid].threads, ret.val)

\* C34: every live thread is in state Ready or Blocked in every reachable
\* state: Running and Terminated are never assigned (schedule_next() does not
\* mark the thread it returns Running, terminate_thread removes the thread
\* instead of marking it Terminated).
C34_LiveThreadReadyOrBlocked ==
    \A mp \in LiveProcesses :
        \A tid \in DOMAIN ThreadsOf(mp) :
            /\ ThreadsOf(mp)[tid].state \in {"Ready", "Blocked"}
            /\ get_thread_state(processes[mp[1]], mp[2], tid).st \in {"Ready", "Blocked"}

\* C34 witness: schedule_next() has just returned a live thread, which still
\* reads Ready, after another thread had been terminated.
C34_Witness ==
    /\ ret.op = "schedule_next"
    /\ ret.res = "Some"
    /\ IsReadyThread(ret.val)
    /\ \E i \in 1..Len(issued_tids) :
          ~ \E mp \in LiveProcesses : ContainsKey(ThreadsOf(mp), issued_tids[i])

\* C35: message queues are independent of process lifetime:
\* terminate_process(pid) leaves every message queue unchanged, so messages
\* already sent to pid stay queued and can still be received under pid after
\* the process is gone, and send_message to a pid with no live process still
\* succeeds.
C35_QueuesOutliveProcesses ==
    /\ [](\A r \in BusPids :
             recv_log[r] \o (IF ContainsKey(queues, r) THEN queues[r] ELSE <<>>) = sent_log[r])
    /\ [][(/\ ret'.op = "terminate_process"
           /\ TerminateProcess(ret'.mgr, ret'.pid)) => queues' = queues]_vars
    /\ [][\A message \in outbox :
             SendMessage(message) =>
                 /\ ret'.res = "Ok"
                 /\ queues'[message.receiver_pid][Len(queues'[message.receiver_pid])] = message]_vars
    /\ [][\A r \in BusPids :
             (ReceiveMessage(r) /\ receive_has(queues, r)) =>
                 (ret'.res = "Ok" /\ ret'.msg = Head(queues[r]))]_vars

\* C35 witness: the first message has just been received under the pid of a
\* process that was created and has since been terminated.
C35_Witness ==
    /\ ret.op = "receive_message"
    /\ ret.res = "Ok"
    /\ ret.pid \in {issued_pids[i] : i \in 1..Len(issued_pids)}
    /\ ~ContainsKey(processes[1], ret.pid)
    /\ ret.msg.id = 1
    /\ next_mid = 2

====
